---- MODULE Spec2Model ----
(***************************************************************************)
(* Model of @turnkey/stacks: the TurnkeySigner class, its key validator,   *)
(* recovery-byte normaliser and the signSTXTransfer pipeline.              *)
(*                                                                         *)
(* The repository holds two copies of the signer module:                   *)
(*   "part_000" : src/unnamed/part_000  (lower-cases the key, optional     *)
(*                organizationId, enriched signing error)                  *)
(*   "index"    : src/src/index.ts      (the rollup entry src/index.ts)    *)
(* A signer remembers which copy constructed it (field build).             *)
(*                                                                         *)
(* Strings are sequences of one-character strings.  An optional value      *)
(* (undefined in the source) is <<>>, a present one is <<x>>.              *)
(***************************************************************************)
EXTENDS Integers, Sequences, FiniteSets, TLC

VARIABLES signer, last, calls

vars == <<signer, last, calls>>

----------------------------------------------------------------------------
(* Bounds of the explored inputs                                           *)

\* how far the length of an input key strays from the 66 expected characters
MaxKeyDelta == 1
\* how many characters r and s may fall short of 64
MaxShort == 1
\* how many characters r and s may exceed 64
MaxOver == 1

----------------------------------------------------------------------------
(* Program constants                                                       *)

KeyHexLen == 66
SigPartLen == 64
VrsLen == 130
RecoveryLen == 2
DEFAULT_FEE == 180
Radix == 16

Builds == {"part_000", "index"}
Networks == {"testnet", "mainnet"}

API_ENDPOINTS(network) ==
    IF network = "testnet" THEN "https://api.testnet.hiro.so"
                           ELSE "https://api.hiro.so"

----------------------------------------------------------------------------
(* JavaScript helpers                                                      *)

None == <<>>
Some(x) == <<x>>

\* a ?? b
Coalesce(a, b) == IF a = None THEN b ELSE a[1]

Rep(c, n) == [i \in 1..n |-> c]

Min(a, b) == IF a < b THEN a ELSE b

\* String.prototype.slice(from) and slice(0, n), 0-based as in the source
SliceFrom(s, from) == SubSeq(s, from + 1, Len(s))
SliceTo(s, n) == SubSeq(s, 1, Min(n, Len(s)))

\* String.prototype.startsWith
StartsWith(s, p) == Len(s) >= Len(p) /\ SubSeq(s, 1, Len(p)) = p

ToLowerChar(c) ==
    CASE c = "A" -> "a" [] c = "B" -> "b" [] c = "C" -> "c"
      [] c = "D" -> "d" [] c = "E" -> "e" [] c = "F" -> "f"
      [] c = "G" -> "g" [] c = "X" -> "x" [] OTHER -> c

\* String.prototype.toLowerCase
ToLowerCase(s) == [i \in 1..Len(s) |-> ToLowerChar(s[i])]

\* String.prototype.padStart(n, "0")
PadStart(s, n) == IF Len(s) >= n THEN s ELSE Rep("0", n - Len(s)) \o s

\* the mutation of PadStart that pads on the right
PadEnd(s, n) == IF Len(s) >= n THEN s ELSE s \o Rep("0", n - Len(s))

HexDigits == {"0", "1", "2", "3", "4", "5", "6", "7", "8", "9",
              "a", "b", "c", "d", "e", "f",
              "A", "B", "C", "D", "E", "F"}

IsHex(s) == \A i \in 1..Len(s) : s[i] \in HexDigits

HexVal(c) ==
    CASE c = "0" -> 0 [] c = "1" -> 1 [] c = "2" -> 2 [] c = "3" -> 3
      [] c = "4" -> 4 [] c = "5" -> 5 [] c = "6" -> 6 [] c = "7" -> 7
      [] c = "8" -> 8 [] c = "9" -> 9
      [] ToLowerChar(c) = "a" -> 10 [] ToLowerChar(c) = "b" -> 11
      [] ToLowerChar(c) = "c" -> 12 [] ToLowerChar(c) = "d" -> 13
      [] ToLowerChar(c) = "e" -> 14 [] OTHER -> 15

HexChar(d) ==
    CASE d = 0 -> "0" [] d = 1 -> "1" [] d = 2 -> "2" [] d = 3 -> "3"
      [] d = 4 -> "4" [] d = 5 -> "5" [] d = 6 -> "6" [] d = 7 -> "7"
      [] d = 8 -> "8" [] d = 9 -> "9" [] d = 10 -> "a" [] d = 11 -> "b"
      [] d = 12 -> "c" [] d = 13 -> "d" [] d = 14 -> "e" [] OTHER -> "f"

SkipSpaces(s) ==
    LET n == CHOOSE k \in 0..Len(s) :
                 /\ \A i \in 1..k : s[i] = " "
                 /\ (k < Len(s) => s[k + 1] # " ")
    IN SliceFrom(s, n)

\* the longest prefix of s made of hexadecimal digits
HexPrefix(s) ==
    LET n == CHOOSE k \in 0..Len(s) :
                 /\ \A i \in 1..k : s[i] \in HexDigits
                 /\ (k < Len(s) => s[k + 1] \notin HexDigits)
    IN SliceTo(s, n)

RECURSIVE HexToInt(_)
HexToInt(s) ==
    IF s = <<>> THEN 0
    ELSE Radix * HexToInt(SubSeq(s, 1, Len(s) - 1)) + HexVal(s[Len(s)])

\* parseInt(v, 16): leading white space, an optional sign and an optional
\* 0x/0X are skipped, then the longest run of hex digits is read; anything
\* that follows is ignored; NaN when no digit is read.
parseInt16(v) ==
    LET s0 == SkipSpaces(v)
        neg == StartsWith(s0, <<"-">>)
        s1 == IF StartsWith(s0, <<"-">>) \/ StartsWith(s0, <<"+">>)
              THEN SliceFrom(s0, 1) ELSE s0
        s2 == IF StartsWith(s1, <<"0", "x">>) \/ StartsWith(s1, <<"0", "X">>)
              THEN SliceFrom(s1, 2) ELSE s1
        z == HexPrefix(s2)
    IN IF z = <<>> THEN [nan |-> TRUE, val |-> 0]
       ELSE [nan |-> FALSE, val |-> IF neg THEN 0 - HexToInt(z) ELSE HexToInt(z)]

\* Number.prototype.toString(16)
RECURSIVE toString16(_)
toString16(n) ==
    IF n < 0 THEN <<"-">> \o toString16(0 - n)
    ELSE IF n < Radix THEN <<HexChar(n)>>
    ELSE toString16(n \div Radix) \o <<HexChar(n % Radix)>>

----------------------------------------------------------------------------
(* Results of operations that may throw: error = "" means no throw         *)

NoError == ""
Returned(x) == [error |-> NoError, value |-> x]
Thrown(msg) == [error |-> msg, value |-> <<>>]

ErrNotString == "Public key must be a string"
ErrKeyLength == "Invalid public key length"
ErrKeyPrefix == "Invalid public key prefix"
ErrRecipient == "Invalid recipient Stacks address"
ErrAmount == "Amount must be greater than 0"
ErrRecoveryByte == "Invalid recovery byte value"
ErrSigLength == "Invalid signature length"
ErrNonceFetch == "Failed to fetch nonce"

----------------------------------------------------------------------------
(* validateCompressedPublicKey                                             *)
(* A key argument is [isString, chars]; chars is the string's text.        *)

\* mutation: the prefix is checked before the length
CheckCleanedPrefixFirst(cleaned) ==
    LET prefix == SliceTo(cleaned, 2)
    IN IF prefix # <<"0", "2">> /\ prefix # <<"0", "3">>
       THEN Thrown(ErrKeyPrefix)
       ELSE IF Len(cleaned) # KeyHexLen THEN Thrown(ErrKeyLength)
       ELSE Returned(cleaned)

\* mutation: off by one in the expected length
CheckCleanedOffByOne(cleaned) ==
    IF Len(cleaned) > KeyHexLen THEN Thrown(ErrKeyLength)
    ELSE LET prefix == SliceTo(cleaned, 2)
         IN IF prefix # <<"0", "2">> /\ prefix # <<"0", "3">>
            THEN Thrown(ErrKeyPrefix)
            ELSE Returned(cleaned)

\* the length and prefix checks both copies share
CheckCleaned(cleaned) ==
    IF Len(cleaned) # KeyHexLen THEN Thrown(ErrKeyLength)
    ELSE LET prefix == SliceTo(cleaned, 2)
         IN IF prefix # <<"0", "2">> /\ prefix # <<"0", "3">>
            THEN Thrown(ErrKeyPrefix)
            ELSE Returned(cleaned)

\* src/unnamed/part_000
validateCompressedPublicKey(pubKeyHex) ==
    IF ~pubKeyHex.isString THEN Thrown(ErrNotString)
    ELSE CheckCleaned(ToLowerCase(
             IF StartsWith(pubKeyHex.chars, <<"0", "x">>)
             THEN SliceFrom(pubKeyHex.chars, 2) ELSE pubKeyHex.chars))

\* src/src/index.ts
validateCompressedPublicKeyIndex(pubKeyHex) ==
    IF ~pubKeyHex.isString THEN Thrown(ErrNotString)
    ELSE CheckCleaned(
             IF StartsWith(pubKeyHex.chars, <<"0", "x">>)
             THEN SliceFrom(pubKeyHex.chars, 2) ELSE pubKeyHex.chars)

ValidateKey(build, pubKeyHex) ==
    IF build = "part_000" THEN validateCompressedPublicKey(pubKeyHex)
                          ELSE validateCompressedPublicKeyIndex(pubKeyHex)

----------------------------------------------------------------------------
(* normalizeRecoveryByte                                                   *)

normalizeRecoveryByte(v) ==
    LET parsed == parseInt16(v)
    IN IF parsed.nan \/ (parsed.val # 0 /\ parsed.val # 1)
       THEN Thrown(ErrRecoveryByte)
       ELSE Returned(PadStart(toString16(parsed.val), RecoveryLen))

----------------------------------------------------------------------------
(* Address derivation (publicKeyToAddress of @stacks/transactions)         *)
(* An address is its two leading characters and the hash160 of the key,    *)
(* which is represented by the key text it is computed from.               *)

C32 == <<"0", "1", "2", "3", "4", "5", "6", "7", "8", "9", "A", "B", "C",
         "D", "E", "F", "G", "H", "J", "K", "M", "N", "P", "Q", "R", "S",
         "T", "V", "W", "X", "Y", "Z">>

\* single-signature (p2pkh) address versions of the chain
AddressVersion(network) == IF network = "mainnet" THEN 22 ELSE 26

publicKeyToAddress(publicKey, network) ==
    [lead |-> <<"S", C32[AddressVersion(network) + 1]>>, hash160 |-> publicKey]

----------------------------------------------------------------------------
(* TurnkeySigner: constructor, getAddress, getPublicKey                    *)
(* config = [publicKey, organizationId, network]; the last two optional.   *)
(* The signer keeps, besides its fields, the config it was built from.     *)

NewTurnkeySigner(build, config) ==
    LET key == ValidateKey(build, config.publicKey)
    IN IF key.error # NoError THEN Thrown(key.error)
       ELSE Returned(Some([build |-> build,
                           organizationId |-> config.organizationId,
                           network |-> Coalesce(config.network, "testnet"),
                           compressedPublicKey |-> key.value,
                           config |-> config]))

\* mutation: the network argument is ignored
getAddressIgnoringArgument(this, network) ==
    publicKeyToAddress(this.compressedPublicKey, this.network)

getAddress(this, network) ==
    publicKeyToAddress(this.compressedPublicKey, Coalesce(network, this.network))

getPublicKey(this) == this.compressedPublicKey

getAddressFromPublicKey(build, publicKey, network) ==
    LET cleaned == ValidateKey(build, publicKey)
    IN IF cleaned.error # NoError THEN Thrown(cleaned.error)
       ELSE Returned(Some(publicKeyToAddress(cleaned.value,
                                             Coalesce(network, "testnet"))))

----------------------------------------------------------------------------
(* Inputs                                                                  *)

Str(chars) == [isString |-> TRUE, chars |-> chars]
NotAString == [isString |-> FALSE, chars |-> <<>>]

KeyPrefixes == {<<>>, <<"0", "x">>, <<"0", "X">>}
LeadBytes == {<<"0", "2">>, <<"0", "3">>, <<"0", "4">>}
BodyChars == {"a", "A", "g"}
KeyLengths == {2, 6} \cup ((KeyHexLen - MaxKeyDelta)..(KeyHexLen + MaxKeyDelta))

\* the keys of the README tests: "025afa" and "invalid"
ReadmeKeys == {<<"0", "2", "5", "a", "f", "a">>,
               <<"i", "n", "v", "a", "l", "i", "d">>}

KeyTexts ==
    {p \o l \o Rep(c, n - 2) :
        p \in KeyPrefixes, l \in LeadBytes, c \in BodyChars, n \in KeyLengths}
    \cup ReadmeKeys \cup {<<>>}

Keys == {Str(k) : k \in KeyTexts} \cup {NotAString}

OrgIds == {None, Some("org-123")}
NetworkArgs == {None} \cup {Some(n) : n \in Networks}

Configs == [publicKey : Keys, organizationId : OrgIds, network : NetworkArgs]

----------------------------------------------------------------------------
(* Operations on keys and addresses                                        *)

Idle == [op |-> "none"]

Construct(build, config) ==
    /\ signer = None
    /\ last = Idle
    /\ LET made == NewTurnkeySigner(build, config)
       IN /\ signer' = made.value
          /\ last' = [op |-> "new TurnkeySigner", build |-> build,
                      config |-> config, error |-> made.error]
    /\ UNCHANGED calls

GetAddress(network) ==
    /\ signer # None
    /\ last' = [op |-> "getAddress", build |-> signer[1].build,
                network |-> network, error |-> NoError,
                value |-> getAddress(signer[1], network)]
    /\ UNCHANGED <<signer, calls>>

GetPublicKey ==
    /\ signer # None
    /\ last' = [op |-> "getPublicKey", build |-> signer[1].build,
                error |-> NoError, value |-> getPublicKey(signer[1])]
    /\ UNCHANGED <<signer, calls>>

\* the standalone helper
GetAddressFromPublicKey(build, publicKey, network) ==
    /\ LET got == getAddressFromPublicKey(build, publicKey, network)
       IN last' = [op |-> "getAddressFromPublicKey", build |-> build,
                   publicKey |-> publicKey, network |-> network,
                   error |-> got.error, value |-> got.value]
    /\ UNCHANGED <<signer, calls>>

\* once a construction was attempted the helper is asked about the same
\* build and key, so that the two can be compared
HelperBuilds == IF last = Idle THEN Builds ELSE {last.build}
HelperKeys ==
    IF signer # None THEN {signer[1].config.publicKey}
    ELSE IF last = Idle THEN Keys
    ELSE IF last.op = "new TurnkeySigner" THEN {last.config.publicKey}
    ELSE {last.publicKey}

InitKeys ==
    /\ signer = None
    /\ last = Idle
    /\ calls = <<>>

NextKeys ==
    \/ \E b \in Builds, c \in Configs : Construct(b, c)
    \/ \E n \in NetworkArgs : GetAddress(n)
    \/ GetPublicKey
    \/ \E b \in HelperBuilds, k \in HelperKeys, n \in NetworkArgs :
           GetAddressFromPublicKey(b, k, n)

SpecKeys == InitKeys /\ [][NextKeys]_vars

----------------------------------------------------------------------------
(* signSTXTransfer                                                         *)
(* params = [recipient, amount, nonce, fee, memo, network]; nonce, fee,    *)
(* memo and network are optional.  A recipient is its text together with   *)
(* the two facts the chain's address check decides on.                     *)

validateStacksAddress(recipient) == recipient.checksumOk /\ recipient.versionOk

\* makeUnsignedSTXTokenTransfer: the transfer with an empty spending-condition
\* signature
makeUnsignedSTXTokenTransfer(recipient, amount, publicKey, nonce, fee, network, memo) ==
    [recipient |-> recipient, amount |-> amount, publicKey |-> publicKey,
     nonce |-> nonce, fee |-> fee, network |-> network, memo |-> memo,
     signature |-> None]

\* sigHashPreSign(signer.sigHash, authType, fee, nonce): a digest of the
\* unsigned transaction's hash, its authentication type, fee and nonce,
\* represented by the values it is computed from
sigHashPreSign(transaction) ==
    [sigHash |-> [transaction EXCEPT !.signature = None],
     authType |-> "standard",
     fee |-> transaction.fee, nonce |-> transaction.nonce]

\* the signRawPayload request signHash builds
SignRequest(this, hash) ==
    [signWith |-> this.compressedPublicKey,
     payload |-> [prefix |-> <<"0", "x">>, hash |-> hash],
     encoding |-> "PAYLOAD_ENCODING_HEXADECIMAL",
     hashFunction |-> "HASH_FUNCTION_NO_OP",
     organizationId |->
         IF this.build = "part_000" /\ this.organizationId # None
                /\ this.organizationId[1] # ""
         THEN this.organizationId ELSE None]

\* mutation: r and s are padded on the right
AssembleSignaturePadEnd(signature) ==
    LET v == normalizeRecoveryByte(signature.v)
    IN IF v.error # NoError THEN Thrown(v.error)
       ELSE LET vrs == v.value \o PadEnd(signature.r, SigPartLen)
                               \o PadEnd(signature.s, SigPartLen)
            IN IF Len(vrs) # VrsLen THEN Thrown(ErrSigLength) ELSE Returned(vrs)

\* mutation: the final length is not asserted
AssembleSignatureUnchecked(signature) ==
    LET v == normalizeRecoveryByte(signature.v)
    IN IF v.error # NoError THEN Thrown(v.error)
       ELSE Returned(v.value \o PadStart(signature.r, SigPartLen)
                             \o PadStart(signature.s, SigPartLen))

\* "Normalize and format signature" up to the length assertion: the vrs
\* string handed to createMessageSignature, or the error thrown
AssembleSignature(signature) ==
    LET v == normalizeRecoveryByte(signature.v)
    IN IF v.error # NoError THEN Thrown(v.error)
       ELSE LET r == PadStart(signature.r, SigPartLen)
                s == PadStart(signature.s, SigPartLen)
                vrs == v.value \o r \o s
            IN IF Len(vrs) # VrsLen THEN Thrown(ErrSigLength) ELSE Returned(vrs)

CallIds == {1}

IdleCall ==
    [pc |-> "idle", params |-> None, network |-> None, senderAddress |-> None,
     nonce |-> None, fee |-> None, transaction |-> None,
     fetches |-> <<>>, response |-> None, requests |-> <<>>,
     signature |-> None,
     error |-> NoError, rejection |-> None, thrown |-> None, result |-> None]

Fail(call, msg) == [call EXCEPT !.pc = "failed", !.error = msg]

\* mutation: the resolved nonce is kept in a place all calls share, and a
\* call takes the one already there
BuildAndRequestCachedNonce(this, call, nonce) ==
    LET p == call.params[1]
        cached == {calls[c].nonce[1] :
                       c \in {d \in DOMAIN calls : calls[d].nonce # None}}
        used == IF cached = {} THEN nonce ELSE CHOOSE n \in cached : TRUE
        txFee == Coalesce(p.fee, DEFAULT_FEE)
        transaction == makeUnsignedSTXTokenTransfer(
                           p.recipient, p.amount, this.compressedPublicKey,
                           used, txFee, call.network[1], p.memo)
    IN [call EXCEPT !.pc = "awaitSign",
                    !.nonce = Some(used),
                    !.fee = Some(txFee),
                    !.transaction = Some(transaction),
                    !.requests = Append(@, SignRequest(this,
                                             sigHashPreSign(transaction)))]

\* mutation: fee || DEFAULT_FEE, which replaces a supplied fee of 0
BuildAndRequestFalsyFee(this, call, nonce) ==
    LET p == call.params[1]
        txFee == IF p.fee = None \/ p.fee = Some(0) THEN DEFAULT_FEE ELSE p.fee[1]
        transaction == makeUnsignedSTXTokenTransfer(
                           p.recipient, p.amount, this.compressedPublicKey,
                           nonce, txFee, call.network[1], p.memo)
    IN [call EXCEPT !.pc = "awaitSign",
                    !.nonce = Some(nonce),
                    !.fee = Some(txFee),
                    !.transaction = Some(transaction),
                    !.requests = Append(@, SignRequest(this,
                                             sigHashPreSign(transaction)))]

\* lines "Build unsigned transaction" to the signRawPayload request: runs
\* once the nonce is known and suspends on the signing call
BuildAndRequest(this, call, nonce) ==
    LET p == call.params[1]
        txFee == Coalesce(p.fee, DEFAULT_FEE)
        transaction == makeUnsignedSTXTokenTransfer(
                           p.recipient, p.amount, this.compressedPublicKey,
                           nonce, txFee, call.network[1], p.memo)
    IN [call EXCEPT !.pc = "awaitSign",
                    !.nonce = Some(nonce),
                    !.fee = Some(txFee),
                    !.transaction = Some(transaction),
                    !.requests = Append(@, SignRequest(this,
                                             sigHashPreSign(transaction)))]

\* mutation: the amount is checked before the recipient
BeginAmountFirst(this, params) ==
    LET network == Coalesce(params.network, this.network)
        call == [IdleCall EXCEPT !.params = Some(params),
                                 !.network = Some(network)]
    IN IF params.amount <= 0 THEN Fail(call, ErrAmount)
       ELSE IF ~validateStacksAddress(params.recipient)
       THEN Fail(call, ErrRecipient)
       ELSE LET senderAddress == getAddress(this, Some(network))
                ready == [call EXCEPT !.senderAddress = Some(senderAddress)]
            IN IF params.nonce = None
               THEN [ready EXCEPT !.pc = "awaitFetch",
                        !.fetches = Append(@, [base |-> API_ENDPOINTS(network),
                                               address |-> senderAddress])]
               ELSE BuildAndRequest(this, ready, params.nonce[1])

\* mutation: the nonce is fetched before the arguments are validated
BeginFetchFirst(this, params) ==
    LET network == Coalesce(params.network, this.network)
        call == [IdleCall EXCEPT !.params = Some(params),
                                 !.network = Some(network),
                                 !.fetches = Append(@,
                                     [base |-> API_ENDPOINTS(network),
                                      address |-> getAddress(this, Some(network))])]
    IN IF ~validateStacksAddress(params.recipient) THEN Fail(call, ErrRecipient)
       ELSE IF params.amount <= 0 THEN Fail(call, ErrAmount)
       ELSE LET senderAddress == getAddress(this, Some(network))
                ready == [call EXCEPT !.senderAddress = Some(senderAddress)]
            IN IF params.nonce = None
               THEN [ready EXCEPT !.pc = "awaitFetch"]
               ELSE BuildAndRequest(this, ready, params.nonce[1])

\* signSTXTransfer from its entry to its first suspension or throw
\* mutation: the sender address is derived with this.getAddress(), for the
\* signer's network whatever the call's network is
BeginSignerNetwork(this, params) ==
    LET network == Coalesce(params.network, this.network)
        call == [IdleCall EXCEPT !.params = Some(params),
                                 !.network = Some(network)]
    IN IF ~validateStacksAddress(params.recipient) THEN Fail(call, ErrRecipient)
       ELSE IF params.amount <= 0 THEN Fail(call, ErrAmount)
       ELSE LET senderAddress == getAddress(this, None)
                ready == [call EXCEPT !.senderAddress = Some(senderAddress)]
            IN IF params.nonce = None
               THEN [ready EXCEPT !.pc = "awaitFetch",
                        !.fetches = Append(@, [base |-> API_ENDPOINTS(network),
                                               address |-> senderAddress])]
               ELSE BuildAndRequest(this, ready, params.nonce[1])

Begin(this, params) ==
    LET network == Coalesce(params.network, this.network)
        call == [IdleCall EXCEPT !.params = Some(params),
                                 !.network = Some(network)]
    IN IF ~validateStacksAddress(params.recipient) THEN Fail(call, ErrRecipient)
       ELSE IF params.amount <= 0 THEN Fail(call, ErrAmount)
       ELSE LET senderAddress == getAddress(this, Some(network))
                ready == [call EXCEPT !.senderAddress = Some(senderAddress)]
            IN IF params.nonce = None
               THEN [ready EXCEPT !.pc = "awaitFetch",
                        !.fetches = Append(@, [base |-> API_ENDPOINTS(network),
                                               address |-> senderAddress])]
               ELSE BuildAndRequest(this, ready, params.nonce[1])

\* fetchNonce after the response arrived.  response = [ok, nonce]: ok is
\* res.ok, nonce the optional possible_next_nonce of the body.
\* mutation: a non-2xx nonce response is answered by asking once more
AfterFetchRetry(this, call, response) ==
    LET got == [call EXCEPT !.response = Some(response)]
    IN IF ~response.ok
       THEN IF Len(call.fetches) < 2
            THEN [got EXCEPT !.fetches = Append(@, call.fetches[1])]
            ELSE Fail(got, ErrNonceFetch)
       ELSE BuildAndRequest(this, got, Coalesce(response.nonce, 0))

AfterFetch(this, call, response) ==
    LET got == [call EXCEPT !.response = Some(response)]
    IN IF ~response.ok THEN Fail(got, ErrNonceFetch)
       ELSE BuildAndRequest(this, got, Coalesce(response.nonce, 0))

\* signSTXTransfer after signRawPayload returned {v, r, s}
\* mutation: when the signature cannot be assembled the call still returns,
\* with the transaction as it was built
AfterSignReturnsUnsigned(call, signature) ==
    LET vrs == AssembleSignature(signature)
        got == [call EXCEPT !.signature = Some(signature)]
        transaction == IF vrs.error # NoError THEN call.transaction[1]
                       ELSE [call.transaction[1] EXCEPT !.signature = Some(vrs.value)]
    IN [got EXCEPT !.pc = "returned",
                   !.transaction = Some(transaction),
                   !.result = Some([transaction |-> transaction,
                                    senderAddress |-> call.senderAddress[1],
                                    nonce |-> call.nonce[1],
                                    fee |-> call.fee[1]])]

\* mutation: the transaction being signed is kept in a place all calls
\* share, and the signature is attached to the one built last
AfterSignShared(call, signature) ==
    LET vrs == AssembleSignature(signature)
        got == [call EXCEPT !.signature = Some(signature)]
        built == {c \in DOMAIN calls : calls[c].transaction # None}
        newest == CHOOSE c \in built : \A d \in built : d <= c
    IN IF vrs.error # NoError THEN Fail(got, vrs.error)
       ELSE LET transaction ==
                    [calls[newest].transaction[1] EXCEPT !.signature = Some(vrs.value)]
            IN [got EXCEPT !.pc = "returned",
                           !.transaction = Some(transaction),
                           !.result = Some([transaction |-> transaction,
                                            senderAddress |-> call.senderAddress[1],
                                            nonce |-> call.nonce[1],
                                            fee |-> call.fee[1]])]

AfterSign(call, signature) ==
    LET vrs == AssembleSignature(signature)
        got == [call EXCEPT !.signature = Some(signature)]
    IN IF vrs.error # NoError THEN Fail(got, vrs.error)
       ELSE LET transaction ==
                    [call.transaction[1] EXCEPT !.signature = Some(vrs.value)]
            IN [got EXCEPT !.pc = "returned",
                           !.transaction = Some(transaction),
                           !.result = Some([transaction |-> transaction,
                                            senderAddress |-> call.senderAddress[1],
                                            nonce |-> call.nonce[1],
                                            fee |-> call.fee[1]])]

ErrNoResource == "Could not find any resource to sign with"
ErrNoResourceLong ==
    "Turnkey error 5: Could not find any resource to sign with. Addresses are case sensitive."
ErrUnauthorized == "unauthorized"
ErrEnriched == "Turnkey could not find a signing key"
ErrSigning == "signRawPayload rejected"
ErrNetwork == "fetch failed"
OrgNotSet == "(not set - using client session)"

\* message.includes("Could not find any resource to sign with")
MentionsNoResource(message) == message \in {ErrNoResource, ErrNoResourceLong}

\* an error value as thrown: its class, its message, and what the enriched
\* message of signHash spells out (absent on any other error)
Rethrown(rejection) ==
    [class |-> rejection.class, message |-> rejection.message,
     signWith |-> None, organizationId |-> None, original |-> None]

\* signHash's catch block: what signHash throws when signRawPayload rejects
\* with rejection = [class, message].  src/src/index.ts has no catch block:
\* the rejection propagates as it is.
SignError(this, rejection) ==
    IF this.build = "part_000" /\ MentionsNoResource(rejection.message)
    THEN [class |-> "Error", message |-> ErrEnriched,
          signWith |-> Some(this.compressedPublicKey),
          organizationId |-> Some(Coalesce(this.organizationId, OrgNotSet)),
          original |-> Some(rejection.message)]
    ELSE Rethrown(rejection)

----------------------------------------------------------------------------
(* Inputs of the signing pipeline                                          *)

ValidRecipient == [text |-> "ST20J4GKB8W7KKA8B0KZ3J7G330DZ1WEWYXJKD4PV",
                   checksumOk |-> TRUE, versionOk |-> TRUE]
Recipients == {ValidRecipient,
               [ValidRecipient EXCEPT !.text = "ST20J4GKB8W7KKA8B0KZ3J7G330DZ1WEWYXJKD4PX",
                                      !.checksumOk = FALSE],
               [ValidRecipient EXCEPT !.text = "XT20J4GKB8W7KKA8B0KZ3J7G330DZ1WEWYXJKD4PV",
                                      !.versionOk = FALSE]}
Amounts == {-1, 0, 1000000}
NonceArgs == {None, Some(0), Some(5)}
FeeArgs == {None, Some(0), Some(200)}
MemoArgs == {None, Some("Payment")}

Params == [recipient : Recipients, amount : Amounts, nonce : NonceArgs,
           fee : FeeArgs, memo : MemoArgs, network : {None, Some("testnet")}]

NonceResponses == {[ok |-> FALSE, nonce |-> None],
                   [ok |-> TRUE, nonce |-> Some(7)],
                   [ok |-> TRUE, nonce |-> None]}

RecoveryTexts == {<<"0">>, <<"1">>, <<"0", "0">>, <<"0", "1">>, <<"2">>,
                  <<"1", "b">>, <<"1", "g">>, <<"0", "x", "1">>,
                  <<>>, <<" ", "1">>, <<"-", "1">>, <<"-", "0">>}
PartLengths == {0} \cup ((SigPartLen - MaxShort)..(SigPartLen + MaxOver))
Signatures == [v : RecoveryTexts,
               r : {Rep("a", n) : n \in PartLengths},
               s : {Rep("b", n) : n \in PartLengths}]

SignFailures == [class : {"Error", "TurnkeyRequestError"},
                 message : {ErrNoResource, ErrNoResourceLong, ErrUnauthorized}]

SignerKeys == {Str(<<"0", "2">> \o Rep("a", KeyHexLen - 2)),
               Str(<<"0", "x", "0", "3">> \o Rep("A", KeyHexLen - 2)),
               Str(<<"0", "4">> \o Rep("a", KeyHexLen - 2))}
SignerConfigs == [publicKey : SignerKeys, organizationId : OrgIds,
                  network : {None, Some("mainnet")}]

----------------------------------------------------------------------------
(* The signing pipeline as steps of one call                               *)

StartCall(c, params) ==
    /\ signer # None
    /\ calls[c].pc = "idle"
    /\ calls' = [calls EXCEPT ![c] = Begin(signer[1], params)]
    /\ UNCHANGED <<signer, last>>

NonceResponse(c, response) ==
    /\ calls[c].pc = "awaitFetch"
    /\ calls' = [calls EXCEPT ![c] = AfterFetch(signer[1], calls[c], response)]
    /\ UNCHANGED <<signer, last>>

SignResponse(c, signature) ==
    /\ calls[c].pc = "awaitSign"
    /\ calls' = [calls EXCEPT ![c] = AfterSign(calls[c], signature)]
    /\ UNCHANGED <<signer, last>>

\* signSTXTransfer after signHash threw: the call rejects with that error
AfterSignError(this, call, rejection) ==
    [Fail(call, ErrSigning) EXCEPT
         !.rejection = Some(rejection),
         !.thrown = Some(SignError(this, rejection))]

SignRejected(c, rejection) ==
    /\ calls[c].pc = "awaitSign"
    /\ calls' = [calls EXCEPT ![c] = AfterSignError(signer[1], calls[c], rejection)]
    /\ UNCHANGED <<signer, last>>

\* fetch(url) itself rejects (no response): fetchNonce, and with it the call,
\* rejects with that error
FetchRejected(c) ==
    /\ calls[c].pc = "awaitFetch"
    /\ calls' = [calls EXCEPT ![c] = Fail(calls[c], ErrNetwork)]
    /\ UNCHANGED <<signer, last>>

Init ==
    /\ \E b \in Builds, config \in SignerConfigs :
           LET made == NewTurnkeySigner(b, config)
           IN /\ signer = made.value
              /\ last = [op |-> "new TurnkeySigner", build |-> b,
                         config |-> config, error |-> made.error]
    /\ calls = [c \in CallIds |-> IdleCall]

Next ==
    \/ \E c \in CallIds, p \in Params : StartCall(c, p)
    \/ \E c \in CallIds, r \in NonceResponses : NonceResponse(c, r)
    \/ \E c \in CallIds, g \in Signatures : SignResponse(c, g)
    \/ \E c \in CallIds, m \in SignFailures : SignRejected(c, m)
    \/ \E c \in CallIds : FetchRejected(c)

Spec == Init /\ [][Next]_vars

----------------------------------------------------------------------------
(* Claims about the key validator and address derivation (SpecKeys)        *)

\* the text of a key argument without its optional 0x prefix
Stripped(key) ==
    IF StartsWith(key.chars, <<"0", "x">>) THEN SliceFrom(key.chars, 2)
                                           ELSE key.chars

LeadOk(key) ==
    SliceTo(Stripped(key), 2) \in {<<"0", "2">>, <<"0", "3">>}

\* the key argument of the last constructor or helper call
LastKeyOps == {"new TurnkeySigner", "getAddressFromPublicKey"}
LastKey ==
    IF last.op = "new TurnkeySigner" THEN last.config.publicKey
                                     ELSE last.publicKey

\* the last constructor or helper call produced nothing
NothingProduced ==
    IF last.op = "new TurnkeySigner" THEN signer = None
                                     ELSE last.value = None

\* C4: a key string whose length without the 0x prefix is not 66 makes the
\* constructor and getAddressFromPublicKey fail with 'Invalid public key
\* length'; no signer and no address is produced.
C4_WrongLengthRejected ==
    (last.op \in LastKeyOps /\ LastKey.isString
        /\ Len(Stripped(LastKey)) # KeyHexLen)
    => (last.error = ErrKeyLength /\ NothingProduced)

C4_Witness ==
    /\ last.op = "getAddressFromPublicKey"
    /\ LastKey.isString
    /\ StartsWith(LastKey.chars, <<"0", "x">>)
    /\ Len(Stripped(LastKey)) = KeyHexLen + 1
    /\ last.error = ErrKeyLength
    /\ signer = None

\* C5 as claimed: a key string whose leading byte is not 02 or 03 fails with
\* 'Invalid public key prefix' whatever its length.
C5_AnyLengthPrefixError ==
    (last.op \in LastKeyOps /\ LastKey.isString /\ ~LeadOk(LastKey))
    => last.error = ErrKeyPrefix

\* C5 amended: a key string of exactly 66 characters (0x prefix stripped)
\* whose leading byte is not 02 or 03 fails with 'Invalid public key
\* prefix'; a key of another length fails with 'Invalid public key length'
\* whatever its leading byte.
C5_PrefixRejectedAtFullLength ==
    (last.op \in LastKeyOps /\ LastKey.isString /\ ~LeadOk(LastKey))
    => /\ last.error = (IF Len(Stripped(LastKey)) = KeyHexLen
                        THEN ErrKeyPrefix ELSE ErrKeyLength)
       /\ NothingProduced

C5_Witness ==
    /\ last.op = "new TurnkeySigner"
    /\ LastKey.isString
    /\ Len(Stripped(LastKey)) = KeyHexLen
    /\ SliceTo(Stripped(LastKey), 2) = <<"0", "4">>
    /\ last.error = ErrKeyPrefix
    /\ signer = None

\* C6 as claimed: the validator accepts a string only if, without its 0x
\* prefix, it is exactly 66 hexadecimal characters; the key a signer holds
\* is always 66 hex characters.
C6_AcceptedKeysAreHex ==
    /\ (last.op \in LastKeyOps /\ last.error = NoError)
           => (Len(Stripped(LastKey)) = KeyHexLen /\ IsHex(Stripped(LastKey)))
    /\ signer # None
           => (Len(signer[1].compressedPublicKey) = KeyHexLen
               /\ IsHex(signer[1].compressedPublicKey))

\* C7 as claimed: the key a signer stores and getPublicKey returns is the
\* accepted key without 0x prefix and in lower case, and validating it
\* again returns it unchanged.
C7_StoredKeyCanonical ==
    /\ signer # None
           => /\ signer[1].compressedPublicKey
                    = ToLowerCase(Stripped(signer[1].config.publicKey))
              /\ ValidateKey(signer[1].build,
                             Str(signer[1].compressedPublicKey))
                    = Returned(signer[1].compressedPublicKey)
    /\ last.op = "getPublicKey"
           => last.value = ToLowerCase(Stripped(signer[1].config.publicKey))

OtherNetwork(network) == IF network = "testnet" THEN "mainnet" ELSE "testnet"
NetworkLead(network) == IF network = "testnet" THEN <<"S", "T">> ELSE <<"S", "P">>

\* the network an address operation resolves its argument to
LastNetwork ==
    IF last.op = "getAddress" THEN Coalesce(last.network, signer[1].network)
                              ELSE Coalesce(last.network, "testnet")

\* the key text the last address operation derived its address from
LastKeyText ==
    IF last.op = "getAddress" THEN signer[1].config.publicKey
                              ELSE last.publicKey

AddressOps == {"getAddress", "getAddressFromPublicKey"}
LastAddress == IF last.op = "getAddress" THEN last.value ELSE last.value[1]

C8_State ==
    (last.op \in AddressOps /\ last.error = NoError)
    => /\ LastAddress.lead = NetworkLead(LastNetwork)
       /\ signer # None =>
            /\ LastAddress = publicKeyToAddress(signer[1].compressedPublicKey,
                                                LastNetwork)
            /\ LastAddress # getAddress(signer[1], Some(OtherNetwork(LastNetwork)))
            /\ getAddress(signer[1], Some(OtherNetwork(LastNetwork))).lead
                  = NetworkLead(OtherNetwork(LastNetwork))

C8_Step ==
    (/\ last.op \in AddressOps /\ last.error = NoError
     /\ last'.op \in AddressOps /\ last'.error = NoError
     /\ LastKeyText' = LastKeyText
     /\ LastNetwork' = LastNetwork)
    => LastAddress' = LastAddress

\* C8: getAddressFromPublicKey and getAddress return, for the same key and
\* network, the same address on every call; the testnet address begins with
\* ST, the mainnet one with SP, and the two differ.
C8_AddressDeterministicPerNetwork == []C8_State /\ [][C8_Step]_vars

C8_Witness ==
    /\ signer # None
    /\ signer[1].network = "testnet"
    /\ last.op = "getAddress"
    /\ last.network = Some("mainnet")
    /\ last.value.lead = <<"S", "P">>

----------------------------------------------------------------------------
(* Claims about signSTXTransfer (Spec)                                     *)

Max(a, b) == IF a > b THEN a ELSE b

Started(c) == calls[c].pc # "idle"
Answered(c) == calls[c].signature # None
RawSig(c) == calls[c].signature[1]

\* no nonce fetch and no signRawPayload request was issued by call c
NoExternalCall(c) == calls[c].fetches = <<>> /\ calls[c].requests = <<>>

\* the length v, r and s give once v is two characters and r and s are
\* padded to 64
AssembledLength(sig) ==
    RecoveryLen + Max(Len(sig.r), SigPartLen) + Max(Len(sig.s), SigPartLen)

\* C1: a returned SignedTransaction exists only with a key that passed the
\* validator, an amount > 0 and a signature of exactly 130 hex characters;
\* a raw signature that assembles to another length fails the call with
\* 'Invalid signature length'.
C1_SignedTransactionInvariant ==
    \A c \in CallIds :
        /\ calls[c].result # None
             => /\ signer # None
                /\ ValidateKey(signer[1].build, signer[1].config.publicKey)
                       = Returned(signer[1].compressedPublicKey)
                /\ calls[c].result[1].transaction.publicKey
                       = signer[1].compressedPublicKey
                /\ calls[c].result[1].transaction.amount > 0
                /\ calls[c].params[1].amount > 0
                /\ calls[c].result[1].transaction.signature # None
                /\ Len(calls[c].result[1].transaction.signature[1]) = VrsLen
        /\ (/\ Answered(c)
            /\ normalizeRecoveryByte(RawSig(c).v).error = NoError
            /\ AssembledLength(RawSig(c)) # VrsLen)
             => /\ calls[c].pc = "failed"
                /\ calls[c].error = ErrSigLength
                /\ calls[c].result = None

C1_Witness ==
    \E c \in CallIds :
        /\ calls[c].pc = "returned"
        /\ calls[c].result # None
        /\ Len(RawSig(c).r) < SigPartLen
        /\ Len(calls[c].result[1].transaction.signature[1]) = VrsLen

\* C2 as claimed: a call whose amount is <= 0 fails with 'Amount must be
\* greater than 0' whatever the recipient, with no nonce fetch and no
\* signRawPayload.
C2_AmountErrorWhateverRecipient ==
    \A c \in CallIds :
        (Started(c) /\ calls[c].params[1].amount <= 0)
        => /\ calls[c].pc = "failed"
           /\ calls[c].error = ErrAmount
           /\ NoExternalCall(c)

\* C2 amended: a call whose amount is <= 0 fails with no nonce fetch and no
\* signRawPayload; the error is 'Amount must be greater than 0' when the
\* recipient passes the address check and 'Invalid recipient Stacks
\* address' when it does not.
C2_NonPositiveAmountRejected ==
    \A c \in CallIds :
        (Started(c) /\ calls[c].params[1].amount <= 0)
        => /\ calls[c].pc = "failed"
           /\ calls[c].error =
                 (IF calls[c].params[1].recipient.checksumOk
                        /\ calls[c].params[1].recipient.versionOk
                  THEN ErrAmount ELSE ErrRecipient)
           /\ calls[c].result = None
           /\ NoExternalCall(c)

C2_Witness ==
    \E c \in CallIds :
        /\ calls[c].pc = "failed"
        /\ calls[c].params[1].amount = 0
        /\ calls[c].params[1].recipient = ValidRecipient
        /\ calls[c].params[1].nonce = None
        /\ calls[c].error = ErrAmount
        /\ NoExternalCall(c)

\* C3: a call whose recipient fails the address check fails with 'Invalid
\* recipient Stacks address', with no nonce fetch and no signRawPayload.
C3_InvalidRecipientRejected ==
    \A c \in CallIds :
        (/\ Started(c)
         /\ ~(calls[c].params[1].recipient.checksumOk
                /\ calls[c].params[1].recipient.versionOk))
        => /\ calls[c].pc = "failed"
           /\ calls[c].error = ErrRecipient
           /\ calls[c].result = None
           /\ NoExternalCall(c)

C3_Witness ==
    \E c \in CallIds :
        /\ calls[c].pc = "failed"
        /\ ~calls[c].params[1].recipient.checksumOk
        /\ calls[c].params[1].amount <= 0
        /\ calls[c].params[1].nonce = None
        /\ calls[c].error = ErrRecipient

\* v as two hex characters, r and s left-padded with zeros, in that order
ExpectedVrs(sig) ==
    <<"0", IF parseInt16(sig.v).val = 1 THEN "1" ELSE "0">>
        \o Rep("0", SigPartLen - Len(sig.r)) \o sig.r
        \o Rep("0", SigPartLen - Len(sig.s)) \o sig.s

\* C9: when v parses to 0 or 1 and r and s are at most 64 hex characters,
\* the attached signature is v (two characters), r and s (each left-padded
\* with zeros to 64) in that order: 130 hex characters.
C9_SignatureIsPaddedVRS ==
    \A c \in CallIds :
        (/\ Answered(c)
         /\ ~parseInt16(RawSig(c).v).nan
         /\ parseInt16(RawSig(c).v).val \in {0, 1}
         /\ Len(RawSig(c).r) <= SigPartLen /\ IsHex(RawSig(c).r)
         /\ Len(RawSig(c).s) <= SigPartLen /\ IsHex(RawSig(c).s))
        => /\ calls[c].pc = "returned"
           /\ calls[c].result[1].transaction.signature
                 = Some(ExpectedVrs(RawSig(c)))
           /\ Len(calls[c].result[1].transaction.signature[1]) = VrsLen
           /\ IsHex(calls[c].result[1].transaction.signature[1])

C9_Witness ==
    \E c \in CallIds :
        /\ calls[c].pc = "returned"
        /\ RawSig(c).v = <<"1">>
        /\ Len(RawSig(c).r) = SigPartLen - 1
        /\ Len(RawSig(c).s) = 0
        /\ calls[c].result[1].transaction.signature[1][2] = "1"
        /\ calls[c].result[1].transaction.signature[1][3] = "0"
        /\ calls[c].result[1].transaction.signature[1][4] = "a"

\* the texts that are a single hex byte of value 0 or 1
RecoveryBytes == {<<"0">>, <<"1">>, <<"0", "0">>, <<"0", "1">>}

\* C10 as claimed: a raw signature whose v is not the hex byte 0 or 1 makes
\* the call fail with 'Invalid recovery byte value'; nothing is returned.
C10_OtherRecoveryByteRejected ==
    \A c \in CallIds :
        (Answered(c) /\ RawSig(c).v \notin RecoveryBytes)
        => /\ calls[c].pc = "failed"
           /\ calls[c].error = ErrRecoveryByte
           /\ calls[c].result = None

Returns(c) == calls[c].pc = "returned"
Result(c) == calls[c].result[1]
Args(c) == calls[c].params[1]

\* C11: in a successful call the returned nonce and fee, and those of the
\* built transaction, are the caller's values when supplied (0 included);
\* the fee is the default 180 when omitted; the nonce source is queried
\* exactly when the nonce is omitted.
C11_NonceAndFeeAsSupplied ==
    \A c \in DOMAIN calls :
        Returns(c)
        => /\ Args(c).nonce # None
                => /\ Result(c).nonce = Args(c).nonce[1]
                   /\ Result(c).transaction.nonce = Args(c).nonce[1]
           /\ Args(c).fee # None
                => /\ Result(c).fee = Args(c).fee[1]
                   /\ Result(c).transaction.fee = Args(c).fee[1]
           /\ Args(c).fee = None
                => /\ Result(c).fee = DEFAULT_FEE
                   /\ Result(c).transaction.fee = DEFAULT_FEE
           /\ (Args(c).nonce = None) <=> (Len(calls[c].fetches) = 1)
           /\ (Args(c).nonce # None) <=> (calls[c].fetches = <<>>)

C11_Witness ==
    \E c \in DOMAIN calls :
        /\ Returns(c)
        /\ Args(c).nonce = Some(0)
        /\ Args(c).fee = Some(0)
        /\ Result(c).nonce = 0
        /\ Result(c).transaction.fee = 0
        /\ calls[c].fetches = <<>>

\* the transaction a call builds from its own arguments, the signer's key
\* and its resolved nonce and fee, before it is signed
OwnUnsigned(c) ==
    [recipient |-> Args(c).recipient, amount |-> Args(c).amount,
     publicKey |-> signer[1].compressedPublicKey,
     nonce |-> calls[c].nonce[1], fee |-> calls[c].fee[1],
     network |-> calls[c].network[1], memo |-> Args(c).memo,
     signature |-> None]

\* C12 as claimed: every signRawPayload request carries HASH_FUNCTION_NO_OP,
\* hexadecimal encoding, the signer's validated key as signWith and the
\* pre-sign hash of the call's transaction as payload; the organization id
\* is in the request when the signer was configured with one and only then.
C12_RequestContract ==
    \A c \in DOMAIN calls :
        \A i \in 1..Len(calls[c].requests) :
            LET request == calls[c].requests[i]
            IN /\ request.hashFunction = "HASH_FUNCTION_NO_OP"
               /\ request.encoding = "PAYLOAD_ENCODING_HEXADECIMAL"
               /\ request.signWith = signer[1].compressedPublicKey
               /\ request.payload = [prefix |-> <<"0", "x">>,
                                     hash |-> [sigHash |-> OwnUnsigned(c),
                                               authType |-> "standard",
                                               fee |-> calls[c].fee[1],
                                               nonce |-> calls[c].nonce[1]]]
               /\ request.organizationId = signer[1].config.organizationId

\* C13: the nonce source and signRawPayload are each invoked at most once
\* per call; a non-2xx nonce response fails the call with 'Failed to fetch
\* nonce' and no signRawPayload; a rejected signRawPayload fails the call
\* and nothing is returned.
C13_State ==
    \A c \in DOMAIN calls :
        /\ Len(calls[c].fetches) <= 1
        /\ Len(calls[c].requests) <= 1
        /\ (calls[c].response # None /\ ~calls[c].response[1].ok)
             => /\ calls[c].pc = "failed"
                /\ calls[c].error = ErrNonceFetch
                /\ calls[c].requests = <<>>
                /\ calls[c].result = None
        /\ calls[c].rejection # None
             => /\ calls[c].pc = "failed"
                /\ calls[c].thrown # None
                /\ calls[c].result = None

\* a failed call stays failed and issues nothing more
C13_Step ==
    \A c \in DOMAIN calls :
        calls[c].pc = "failed" => calls'[c] = calls[c]

C13_NoRetry == []C13_State /\ [][C13_Step]_vars

C13_Witness ==
    \E c \in DOMAIN calls :
        /\ calls[c].pc = "failed"
        /\ calls[c].response = Some([ok |-> FALSE, nonce |-> None])
        /\ Len(calls[c].fetches) = 1
        /\ calls[c].requests = <<>>

\* C14 as claimed: a rejected signRawPayload fails the call with the same
\* error unchanged, unless its message reports 'Could not find any resource
\* to sign with': then the error raised carries the public key used, the
\* organization id used (or that none was set) and the original message,
\* and its class is that of the original error.
C14_SigningErrorPropagation ==
    \A c \in DOMAIN calls :
        calls[c].rejection # None
        => /\ calls[c].pc = "failed"
           /\ calls[c].result = None
           /\ Len(calls[c].requests) = 1
           /\ IF MentionsNoResource(calls[c].rejection[1].message)
              THEN /\ calls[c].thrown[1].signWith
                         = Some(signer[1].compressedPublicKey)
                   /\ calls[c].thrown[1].organizationId
                         = Some(Coalesce(signer[1].organizationId, OrgNotSet))
                   /\ calls[c].thrown[1].original
                         = Some(calls[c].rejection[1].message)
                   /\ calls[c].thrown[1].class = calls[c].rejection[1].class
              ELSE calls[c].thrown[1] = Rethrown(calls[c].rejection[1])

\* C15 as claimed: a nonce response that is 2xx but has no
\* possible_next_nonce aborts the call: no transaction is built or signed
\* with a substituted nonce.
C15_NoDefaultNonce ==
    \A c \in DOMAIN calls :
        (/\ calls[c].response # None
         /\ calls[c].response[1].ok
         /\ calls[c].response[1].nonce = None)
        => /\ calls[c].pc = "failed"
           /\ calls[c].transaction = None
           /\ calls[c].requests = <<>>
           /\ calls[c].result = None

\* ---------------------------------------------------------------------
\* broadcastTransaction
\* ---------------------------------------------------------------------

ErrBroadcast == "Broadcast failed"
ErrSink == "stacksBroadcastTransaction rejected"

\* what stacksBroadcastTransaction can hand back: a bare string, an object
\* (with or without the txid and error fields), null, or a rejection
SinkString(value) == [kind |-> "string", txid |-> None, error |-> None,
                      value |-> Some(value)]
SinkObject(txid, error) == [kind |-> "object", txid |-> txid, error |-> error,
                            value |-> None]
SinkNull == [kind |-> "null", txid |-> None, error |-> None, value |-> None]
SinkRejects == [kind |-> "rejects", txid |-> None, error |-> None, value |-> None]

SinkResults ==
    {SinkString("0xtxid1"), SinkString(""),
     SinkObject(Some("0xtxid2"), None),
     SinkObject(Some("0xtxid3"), Some("transaction rejected")),
     SinkObject(None, Some("transaction rejected")),
     SinkObject(None, None),
     SinkNull, SinkRejects}

\* network: StacksNetworkType = "testnet"
BroadcastNetwork(network) == Coalesce(network, "testnet")

\* mutation: only the bare string shape is accepted
broadcastTransactionStringOnly(result) ==
    IF result.kind = "rejects" THEN Thrown(ErrSink)
    ELSE IF result.kind = "string" THEN Returned(result.value[1])
    ELSE Thrown(ErrBroadcast)

\* the outcome of broadcastTransaction once the sink has answered `result`
broadcastTransaction(result) ==
    IF result.kind = "rejects" THEN Thrown(ErrSink)
    ELSE IF result.kind = "string" THEN Returned(result.value[1])
    ELSE IF result.kind = "object" /\ result.txid # None
         THEN Returned(result.txid[1])
    ELSE Thrown(ErrBroadcast)

\* broadcastTransaction(transaction, network) on the transaction a call
\* returned
Broadcast(c, network, result) ==
    /\ calls[c].pc = "returned"
    /\ LET outcome == broadcastTransaction(result)
       IN last' = [op |-> "broadcastTransaction",
                   sent |-> [transaction |-> calls[c].result[1].transaction,
                             network |-> BroadcastNetwork(network)],
                   result |-> result,
                   error |-> outcome.error, value |-> outcome.value]
    /\ UNCHANGED <<signer, calls>>

\* transfers and signatures that get a call to its returned transaction
BroadcastParams == [recipient : {ValidRecipient}, amount : {1000000},
                    nonce : {Some(5)}, fee : {None, Some(200)},
                    memo : {None}, network : {None, Some("testnet")}]
BroadcastSignatures == [v : {<<"0">>, <<"0", "1">>},
                        r : {Rep("a", SigPartLen)},
                        s : {Rep("b", SigPartLen - MaxShort), Rep("b", SigPartLen + MaxOver)}]

NextBroadcast ==
    \/ \E c \in CallIds, p \in BroadcastParams : StartCall(c, p)
    \/ \E c \in CallIds, g \in BroadcastSignatures : SignResponse(c, g)
    \/ \E c \in CallIds, n \in NetworkArgs, r \in SinkResults : Broadcast(c, n, r)

SpecBroadcast == Init /\ [][NextBroadcast]_vars

Broadcasts == last.op = "broadcastTransaction"

C17_RejectionThrows ==
    (/\ Broadcasts
     /\ last.result.kind = "object"
     /\ last.result.error # None)
    => last.error # NoError

\* ---------------------------------------------------------------------
\* two signSTXTransfer calls in flight on one signer
\* ---------------------------------------------------------------------

ConcCallIds == {1, 2}

OtherRecipient == [text |-> "ST2J6ZY7R94P80Z4CGFRHZ3Q16MF0NKHN3FK4R0N",
                   checksumOk |-> TRUE, versionOk |-> TRUE]

ConcParams == [recipient : {ValidRecipient, OtherRecipient}, amount : {1000000},
               nonce : {None, Some(5), Some(6)}, fee : {None, Some(200)},
               memo : {None}, network : {None}]
ConcNonceResponses == {[ok |-> FALSE, nonce |-> None],
                       [ok |-> TRUE, nonce |-> Some(7)],
                       [ok |-> TRUE, nonce |-> Some(8)]}
ConcSignatures == [v : {<<"0">>, <<"1">>},
                   r : {Rep("a", SigPartLen)},
                   s : {Rep("b", SigPartLen - MaxShort), Rep("b", SigPartLen + MaxOver)}]
ConcSignFailures == {[class |-> "Error", message |-> ErrUnauthorized]}
ConcConfigs == [publicKey : {Str(<<"0", "2">> \o Rep("a", KeyHexLen - 2))},
                organizationId : OrgIds, network : {None}]

InitConc ==
    /\ \E b \in Builds, config \in ConcConfigs :
           LET made == NewTurnkeySigner(b, config)
           IN /\ signer = made.value
              /\ last = [op |-> "new TurnkeySigner", build |-> b,
                         config |-> config, error |-> made.error]
    /\ calls = [c \in ConcCallIds |-> IdleCall]

NextConc ==
    \/ \E c \in ConcCallIds, p \in ConcParams : StartCall(c, p)
    \/ \E c \in ConcCallIds, r \in ConcNonceResponses : NonceResponse(c, r)
    \/ \E c \in ConcCallIds, g \in ConcSignatures : SignResponse(c, g)
    \/ \E c \in ConcCallIds, m \in ConcSignFailures : SignRejected(c, m)
    \/ \E c \in ConcCallIds : FetchRejected(c)

SpecConc == InitConc /\ [][NextConc]_vars

\* the nonce a call resolves by itself: the caller's, else the one in the
\* response to its own fetch
OwnNonce(c) ==
    IF Args(c).nonce # None THEN Args(c).nonce[1]
    ELSE Coalesce(calls[c].response[1].nonce, 0)

C18_State ==
    /\ signer # None
    /\ signer = NewTurnkeySigner(signer[1].build, signer[1].config).value
    /\ signer[1].compressedPublicKey
           = ValidateKey(signer[1].build, signer[1].config.publicKey).value
    /\ signer[1].organizationId = signer[1].config.organizationId
    /\ signer[1].network = Coalesce(signer[1].config.network, "testnet")
    /\ \A c \in DOMAIN calls :
           /\ calls[c].requests # <<>>
                => calls[c].requests[1].payload.hash = sigHashPreSign(OwnUnsigned(c))
           /\ Returns(c)
                => /\ Result(c).transaction
                         = [OwnUnsigned(c) EXCEPT !.signature =
                                Some(AssembleSignature(calls[c].signature[1]).value)]
                   /\ Result(c).transaction.recipient = Args(c).recipient
                   /\ Result(c).transaction.amount = Args(c).amount
                   /\ Result(c).nonce = OwnNonce(c)
                   /\ Result(c).transaction.nonce = OwnNonce(c)
                   /\ Result(c).fee = Coalesce(Args(c).fee, DEFAULT_FEE)
                   /\ Result(c).transaction.fee = Coalesce(Args(c).fee, DEFAULT_FEE)

\* a step of one call leaves the signer and every other call as they were
C18_Step ==
    /\ signer' = signer
    /\ \A c, d \in DOMAIN calls :
           (c # d /\ calls'[c] # calls[c]) => calls'[d] = calls[d]

\* C18: under any interleaving of two calls on one signer, the signer's key,
\* organization id and network stay at their construction-time values, and
\* each returned transaction carries the signature answered to that call's
\* own request with that call's own recipient, amount, nonce and fee.
C18_NoSharedState == []C18_State /\ [][C18_Step]_vars

C18_Witness ==
    /\ Returns(1) /\ Returns(2)
    /\ Args(1).recipient # Args(2).recipient
    /\ Args(1).fee # Args(2).fee
    /\ Result(1).nonce # Result(2).nonce
    /\ calls[1].signature # calls[2].signature
    /\ Result(1).transaction.signature # Result(2).transaction.signature

\* C19: when two calls are given distinct explicit nonces, the transactions
\* they return carry those nonces and neither call fetches a nonce.  (That
\* two calls without a nonce can both return the same nonce is the reachable
\* state C19_Witness.)
C19_ExplicitNoncesKept ==
    \A c, d \in DOMAIN calls :
        (/\ c # d
         /\ calls[c].params # None /\ calls[d].params # None
         /\ Args(c).nonce # None /\ Args(d).nonce # None
         /\ Args(c).nonce # Args(d).nonce)
        => /\ calls[c].fetches = <<>>
           /\ calls[c].nonce # None => calls[c].nonce = Args(c).nonce
           /\ Returns(c)
                => /\ Result(c).nonce = Args(c).nonce[1]
                   /\ Result(c).transaction.nonce = Args(c).nonce[1]
           /\ (Returns(c) /\ Returns(d))
                => Result(c).transaction.nonce # Result(d).transaction.nonce

C19_Witness ==
    /\ Returns(1) /\ Returns(2)
    /\ Args(1).nonce = None /\ Args(2).nonce = None
    /\ Len(calls[1].fetches) = 1 /\ Len(calls[2].fetches) = 1
    /\ Result(1).transaction.nonce = Result(2).transaction.nonce

\* the positions a call moves through, and the moves between them
CallOrder ==
    {<<"idle", "awaitFetch">>, <<"idle", "awaitSign">>, <<"idle", "failed">>,
     <<"awaitFetch", "awaitSign">>, <<"awaitFetch", "failed">>,
     <<"awaitSign", "returned">>, <<"awaitSign", "failed">>}

C20_State ==
    \A c \in DOMAIN calls :
        LET call == calls[c]
        IN /\ call.pc \in {"idle", "awaitFetch", "awaitSign", "returned", "failed"}
           \* validation comes first: a rejected argument stops everything
           /\ call.error \in {ErrRecipient, ErrAmount}
                => /\ call.senderAddress = None
                   /\ call.fetches = <<>> /\ call.requests = <<>>
                   /\ call.transaction = None
           \* the nonce is asked for the derived sender address, before
           \* anything is built
           /\ call.fetches # <<>>
                => /\ call.senderAddress # None
                   /\ call.fetches[1].address = call.senderAddress[1]
                   /\ call.fetches[1].base = API_ENDPOINTS(call.network[1])
           /\ call.pc = "awaitFetch"
                => /\ call.nonce = None /\ call.fee = None
                   /\ call.transaction = None /\ call.requests = <<>>
           \* signing is requested for the hash of the built transaction,
           \* after the nonce and the fee are resolved
           /\ call.requests # <<>>
                => /\ call.nonce # None /\ call.fee # None
                   /\ call.transaction # None
                   /\ call.params[1].nonce = None
                        => call.response # None /\ call.response[1].ok
                   /\ call.requests[1].payload.hash
                         = sigHashPreSign(OwnUnsigned(c))
           /\ call.signature # None => call.requests # <<>>
           \* at most two suspending operations
           /\ Len(call.fetches) <= 1 /\ Len(call.requests) <= 1
           \* all or nothing
           /\ (call.result # None) <=> (call.pc = "returned")
           /\ call.pc = "returned"
                => /\ call.error = NoError
                   /\ call.signature # None
                   /\ call.result[1].transaction.signature # None
                   /\ Len(call.result[1].transaction.signature[1]) = VrsLen
                   /\ call.result[1].transaction.signature[1]
                         = AssembleSignature(call.signature[1]).value
           /\ call.pc = "failed" => call.error # NoError /\ call.result = None
           /\ call.pc \in {"idle", "awaitFetch", "awaitSign"}
                => call.error = NoError /\ call.result = None

C20_Step ==
    \A c \in DOMAIN calls :
        /\ calls'[c].pc # calls[c].pc => <<calls[c].pc, calls'[c].pc>> \in CallOrder
        /\ calls[c].pc \in {"returned", "failed"} => calls'[c] = calls[c]
        /\ calls'[c] # calls[c] => calls'[c].pc # calls[c].pc
        /\ Len(calls'[c].fetches) > Len(calls[c].fetches)
             => calls[c].pc = "idle" /\ calls'[c].pc = "awaitFetch"
        /\ Len(calls'[c].requests) > Len(calls[c].requests)
             => /\ calls[c].pc \in {"idle", "awaitFetch"}
                /\ calls'[c].pc = "awaitSign"

\* C20: a signSTXTransfer call is one chain (validate, derive the sender
\* address, obtain the nonce, resolve the fee, build, hash, sign, assemble)
\* with at most two suspensions, the nonce fetch and then the signing
\* request, which is never issued before the nonce is resolved; the call
\* ends by returning a transaction with its signature attached or by
\* raising an error, and a call that has not returned exposes no
\* transaction.
C20_LinearAllOrNothing == []C20_State /\ [][C20_Step]_vars

C20_Witness ==
    \E c \in DOMAIN calls :
        /\ calls[c].pc = "returned"
        /\ Len(calls[c].fetches) = 1
        /\ Len(calls[c].requests) = 1
        /\ calls[c].response = Some([ok |-> TRUE, nonce |-> Some(7)])
        /\ calls[c].result[1].nonce = 7
        /\ Len(calls[c].result[1].transaction.signature[1]) = VrsLen

\* ---------------------------------------------------------------------
\* the network of an operation
\* ---------------------------------------------------------------------

NetParams == [recipient : {ValidRecipient}, amount : {1000000},
              nonce : {None, Some(5)}, fee : {None}, memo : {None},
              network : NetworkArgs]
NetNonceResponses == {[ok |-> TRUE, nonce |-> Some(7)]}
NetSignatures == [v : {<<"0">>},
                  r : {Rep("a", SigPartLen)},
                  s : {Rep("b", SigPartLen - MaxShort), Rep("b", SigPartLen + MaxOver)}]
NetConfigs == [publicKey : {Str(<<"0", "2">> \o Rep("a", KeyHexLen - 2))},
               organizationId : {None}, network : NetworkArgs]

InitNet ==
    /\ \E b \in Builds, config \in NetConfigs :
           LET made == NewTurnkeySigner(b, config)
           IN /\ signer = made.value
              /\ last = [op |-> "new TurnkeySigner", build |-> b,
                         config |-> config, error |-> made.error]
    /\ calls = [c \in CallIds |-> IdleCall]

NextNet ==
    \/ \E n \in NetworkArgs : GetAddress(n)
    \/ \E c \in CallIds, p \in NetParams : StartCall(c, p)
    \/ \E c \in CallIds, r \in NetNonceResponses : NonceResponse(c, r)
    \/ \E c \in CallIds, g \in NetSignatures : SignResponse(c, g)

SpecNet == InitNet /\ [][NextNet]_vars

\* the argument when given, else the configured network, else testnet
EffectiveNetwork(argument) ==
    IF argument # None THEN argument[1]
    ELSE IF signer[1].config.network # None THEN signer[1].config.network[1]
    ELSE "testnet"

\* what the two networks stand for outside the program
NetworkEndpoint(network) ==
    IF network = "mainnet" THEN "https://api.hiro.so"
                           ELSE "https://api.testnet.hiro.so"

\* C21: the network of an operation is its network argument when given,
\* else the signer's configured network, which is testnet when the
\* configuration omits it; one signSTXTransfer call uses that one network
\* for the sender address, the nonce endpoint and the built transaction,
\* and returns getAddress(that network) as senderAddress.
C21_EffectiveNetwork ==
    /\ signer # None
    /\ signer[1].network = EffectiveNetwork(None)
    /\ last.op = "getAddress"
         => /\ last.value = publicKeyToAddress(signer[1].compressedPublicKey,
                                               EffectiveNetwork(last.network))
            /\ last.value.lead = NetworkLead(EffectiveNetwork(last.network))
    /\ \A c \in DOMAIN calls :
           calls[c].params # None
           => LET network == EffectiveNetwork(Args(c).network)
                  address == publicKeyToAddress(signer[1].compressedPublicKey,
                                                network)
              IN /\ calls[c].network = Some(network)
                 /\ calls[c].senderAddress # None
                      => /\ calls[c].senderAddress[1] = address
                         /\ calls[c].senderAddress[1].lead = NetworkLead(network)
                 /\ \A i \in 1..Len(calls[c].fetches) :
                        /\ calls[c].fetches[i].base = NetworkEndpoint(network)
                        /\ calls[c].fetches[i].address = address
                 /\ calls[c].transaction # None
                      => calls[c].transaction[1].network = network
                 /\ Returns(c)
                      => /\ Result(c).senderAddress
                               = getAddress(signer[1], Some(network))
                         /\ Result(c).senderAddress = address
                         /\ Result(c).transaction.network = network

C21_Witness ==
    \E c \in DOMAIN calls :
        /\ Returns(c)
        /\ signer[1].config.network = Some("testnet")
        /\ Args(c).network = Some("mainnet")
        /\ Len(calls[c].fetches) = 1
        /\ calls[c].fetches[1].base = "https://api.hiro.so"
        /\ Result(c).senderAddress.lead = <<"S", "P">>
        /\ Result(c).transaction.network = "mainnet"

\* ---------------------------------------------------------------------
\* signAndBroadcastSTXTransfer
\* ---------------------------------------------------------------------

SabOp == "signAndBroadcastSTXTransfer"

\* mutation: the broadcast goes to the signer's network whatever the call's
\* network is
SabNetworkOfSigner(this, params) == this.network

\* params.network ?? signer.network
SabNetwork(this, params) == Coalesce(params.network, this.network)

\* signSTXTransfer has resolved: broadcastTransaction is called with the
\* returned transaction, and the sink is invoked
SabAfterSign(this, c, call) ==
    [op |-> SabOp, pc |-> "awaitBroadcast", call |-> c,
     sent |-> <<[transaction |-> call.result[1].transaction,
                 network |-> BroadcastNetwork(
                                 Some(SabNetwork(this, call.params[1])))]>>,
     senderAddress |-> Some(call.result[1].senderAddress),
     result |-> None, error |-> NoError, value |-> None]

\* signSTXTransfer has rejected: so does signAndBroadcastSTXTransfer
SabAfterSignFailed(c, call) ==
    [op |-> SabOp, pc |-> "failed", call |-> c, sent |-> <<>>,
     senderAddress |-> None,
     result |-> None, error |-> call.error, value |-> None]

\* the sink has answered: broadcastTransaction returns or throws, and with
\* it signAndBroadcastSTXTransfer
SabAfterBroadcast(op, params, result) ==
    LET outcome == broadcastTransaction(result)
    IN IF outcome.error # NoError
       THEN [op EXCEPT !.pc = "failed", !.result = Some(result),
                       !.error = outcome.error]
       ELSE [op EXCEPT !.pc = "returned", !.result = Some(result),
                       !.value = Some([txid |-> outcome.value,
                                       senderAddress |-> op.senderAddress[1],
                                       recipient |-> params.recipient,
                                       amount |-> params.amount])]

SabSigned(c) ==
    /\ last.op # SabOp
    /\ calls[c].pc = "returned"
    /\ last' = SabAfterSign(signer[1], c, calls[c])
    /\ UNCHANGED <<signer, calls>>

SabSignFailed(c) ==
    /\ last.op # SabOp
    /\ calls[c].pc = "failed"
    /\ last' = SabAfterSignFailed(c, calls[c])
    /\ UNCHANGED <<signer, calls>>

SabSinkResponse(result) ==
    /\ last.op = SabOp
    /\ last.pc = "awaitBroadcast"
    /\ last' = SabAfterBroadcast(last, calls[last.call].params[1], result)
    /\ UNCHANGED <<signer, calls>>

SabParams == [recipient : {ValidRecipient,
                           [ValidRecipient EXCEPT !.checksumOk = FALSE]},
              amount : {1000000}, nonce : {None, Some(5)}, fee : {None},
              memo : {None}, network : NetworkArgs]
SabSignFailures == {[class |-> "Error", message |-> ErrUnauthorized]}

NextSab ==
    \/ \E c \in CallIds, p \in SabParams : StartCall(c, p)
    \/ \E c \in CallIds, r \in NetNonceResponses : NonceResponse(c, r)
    \/ \E c \in CallIds : FetchRejected(c)
    \/ \E c \in CallIds, g \in NetSignatures : SignResponse(c, g)
    \/ \E c \in CallIds, m \in SabSignFailures : SignRejected(c, m)
    \/ \E c \in CallIds : SabSigned(c)
    \/ \E c \in CallIds : SabSignFailed(c)
    \/ \E r \in SinkResults : SabSinkResponse(r)

SpecSab == InitNet /\ [][NextSab]_vars

SabRuns == last.op = SabOp

C22_State ==
    SabRuns
    => LET c == last.call
       IN /\ Len(last.sent) <= 1
          /\ last.sent # <<>>
               => /\ Returns(c)
                  /\ last.sent[1].transaction = Result(c).transaction
                  /\ last.sent[1].transaction.signature # None
                  /\ last.sent[1].network = EffectiveNetwork(Args(c).network)
                  /\ last.sent[1].network = Result(c).transaction.network
          /\ calls[c].pc = "failed"
               => /\ last.sent = <<>>
                  /\ last.pc = "failed"
                  /\ last.value = None
          /\ last.result # None => Len(last.sent) = 1
          /\ last.pc = "returned"
               => /\ Len(last.sent) = 1
                  /\ last.value[1].recipient = Args(c).recipient
                  /\ last.value[1].amount = Args(c).amount
                  /\ last.value[1].senderAddress = Result(c).senderAddress
                  /\ last.value[1].txid = broadcastTransaction(last.result[1]).value

\* the sink is invoked only from a call that has returned, and once invoked
\* its invocation stays the only one
C22_Step ==
    /\ (~SabRuns /\ SabRuns' /\ last'.sent # <<>>)
         => calls[last'.call].pc = "returned"
    /\ SabRuns
         => /\ SabRuns'
            /\ last'.sent = last.sent
            /\ last'.call = last.call
            /\ last.pc \in {"returned", "failed"} => last' = last

\* C22: signAndBroadcastSTXTransfer invokes the broadcast sink at most once,
\* only after signSTXTransfer has returned, with the returned transaction
\* and the network of the signing (params.network, else the signer's); when
\* signing fails nothing is broadcast; on success the result has the
\* caller's recipient and amount and the senderAddress signing returned.
C22_BroadcastAfterSigning == []C22_State /\ [][C22_Step]_vars

C22_Witness ==
    /\ SabRuns
    /\ last.pc = "returned"
    /\ signer[1].config.network = Some("testnet")
    /\ Args(last.call).network = Some("mainnet")
    /\ last.sent[1].network = "mainnet"
    /\ last.result = Some(SinkObject(Some("0xtxid2"), None))
    /\ last.value[1].txid = "0xtxid2"
    /\ last.value[1].recipient = ValidRecipient

====
